---- MODULE Spec2Model ----
(***************************************************************************)
(* Model of the FROG acquisition engine: MeasurementWorker.run and          *)
(* move_stage_and_wait of 01_Mesurement/FROG_Measure_GUI_ver.1.0.py         *)
(* (bata/FROG_Measure_GUI_ver.2.0.py carries the same code).                *)
(*                                                                          *)
(* The worker thread is a sequential process whose position is pc; it is    *)
(* cut at every blocking device or file call.  The GUI thread interleaves   *)
(* with it through stop().  Device and file calls may raise; the faults     *)
(* modelled are those of the serial link, of the spectrometer, of the       *)
(* creation of the data directory and of the opening of the output files.   *)
(* Writes to files that are already open and writes to the log file are     *)
(* taken to succeed.                                                        *)
(*                                                                          *)
(* Units: intensities are integers in units of 1e-5 count, wavelengths in   *)
(* units of 0.01 nm, delays in units of 1e-4 fs.  The wall-clock timestamp  *)
(* that ends every row of the row-major file is left out.                   *)
(***************************************************************************)
EXTENDS Integers, Sequences, FiniteSets, TLC

\* ------------------------------------------------------------------ bounds
MaxStep == 2
MaxRange == 2
NWl == 3
MaxWorkers == 2
CliPollCap == 4

\* ------------------------------------------------------- program constants
MaxPolls == 120
LeadingOffset == 1002
UnknownPos == 0 - 999999
DtPerPulse == 66713

\* an optional value: None, or Some(v)
None == [some |-> FALSE, v |-> <<>>]

Some(x) == [some |-> TRUE, v |-> x]

\* ------------------------------------------------------------ pure helpers
Abs(a) == IF a < 0 THEN 0 - a ELSE a

\* str.strip(): drop leading and trailing whitespace
Whitespace == {" ", "\n", "\r", "\t"}

RECURSIVE LStrip(_)
LStrip(s) ==
    IF s # <<>> /\ Head(s) \in Whitespace THEN LStrip(Tail(s)) ELSE s

RECURSIVE RStrip(_)
RStrip(s) ==
    IF s # <<>> /\ s[Len(s)] \in Whitespace
    THEN RStrip(SubSeq(s, 1, Len(s) - 1)) ELSE s

Strip(s) == RStrip(LStrip(s))

Digits == {"0", "1", "2", "3", "4", "5", "6", "7", "8", "9"}

DigitVal(c) ==
    CASE c = "0" -> 0 [] c = "1" -> 1 [] c = "2" -> 2 [] c = "3" -> 3
      [] c = "4" -> 4 [] c = "5" -> 5 [] c = "6" -> 6 [] c = "7" -> 7
      [] c = "8" -> 8 [] OTHER -> 9

RECURSIVE DigitsVal(_)
DigitsVal(s) ==
    IF s = <<>> THEN 0
    ELSE 10 * DigitsVal(SubSeq(s, 1, Len(s) - 1)) + DigitVal(s[Len(s)])

AllDigits(s) == s # <<>> /\ \A k \in 1..Len(s) : s[k] \in Digits

\* int(text): optional sign followed by decimal digits
IsIntLiteral(s) ==
    /\ s # <<>>
    /\ IF Head(s) \in {"+", "-"} THEN AllDigits(Tail(s)) ELSE AllDigits(s)

ParseInt(s) ==
    IF Head(s) = "-" THEN 0 - DigitsVal(Tail(s))
    ELSE IF Head(s) = "+" THEN DigitsVal(Tail(s))
    ELSE DigitsVal(s)

\* round to the nearest multiple of unit, ties to even (the "%.Nf" formats)
RoundHalfEven(v, unit) ==
    LET a == Abs(v)
        q == a \div unit
        r == a % unit
        m == IF 2 * r > unit THEN q + 1
             ELSE IF 2 * r < unit THEN q
             ELSE IF q % 2 = 0 THEN q ELSE q + 1
    IN  IF v < 0 THEN 0 - m ELSE m

\* f"{t:.2f}" of a delay: 1e-4 fs -> 1e-2 fs
Fmt2(t) == RoundHalfEven(t, 100)

\* f"{y:.4f}" of an intensity: 1e-5 count -> 1e-4 count
Fmt4(y) == RoundHalfEven(y, 10)

\* f"{wl:.1f}" of a wavelength: 0.01 nm -> 0.1 nm
Fmt1(wl) == RoundHalfEven(wl, 10)

\* seq[1002:]
DropLeading(raw) ==
    IF Len(raw) <= LeadingOffset THEN <<>>
    ELSE [j \in 1..(Len(raw) - LeadingOffset) |-> raw[j + LeadingOffset]]


\* x - y of numpy for one-dimensional arrays; "raise" when the shapes do not
\* broadcast
NpCanSubtract(y, bg) == Len(y) = Len(bg) \/ Len(y) = 1 \/ Len(bg) = 1

NpSubtract_Clamped(y, bg) ==
    [j \in 1..Len(y) |-> IF y[j] - bg[j] < 0 THEN 0 ELSE y[j] - bg[j]]

NpSubtract(y, bg) ==
    IF Len(y) = Len(bg) THEN [j \in 1..Len(y) |-> y[j] - bg[j]]
    ELSE IF Len(bg) = 1 THEN [j \in 1..Len(y) |-> y[j] - bg[1]]
    ELSE [j \in 1..Len(bg) |-> y[1] - bg[j]]

\* np.nanmax of a non-empty vector of finite values
NanMax(y) == CHOOSE m \in {y[j] : j \in 1..Len(y)} :
                 \A j \in 1..Len(y) : y[j] <= m

BgApplies_NoLengthCheck(y, bg) == bg.some

\* the background is subtracted only when it is present and as long as y
BgApplies(y, bg) == bg.some /\ Len(y) = Len(bg.v)

Transpose_FirstColumn(m, ncols) ==
    [w \in 1..ncols |-> [k \in 1..Len(m) |-> m[k][1]]]

\* np.array(y_mat).T
Transpose(m, ncols) ==
    [w \in 1..ncols |-> [k \in 1..Len(m) |-> m[k][w]]]

\* ---------------------------------------------------------------- devices
\* what the spectrometer and the stage controller can answer
Vec(base) == [j \in 1..NWl |-> base[((j - 1) % Len(base)) + 1]]

Padded(v) ==
    [j \in 1..(LeadingOffset + Len(v)) |->
        IF j <= LeadingOffset THEN 0 ELSE v[j - LeadingOffset]]

RawWavelengths == [j \in 1..(LeadingOffset + NWl) |-> 20000 + 22 * j]

LiveVectors == {Vec(<<5, 3, 9>>), Vec(<<120004, 70015, 10>>)}

Backgrounds ==
    {None, Some(Vec(<<2, 3, 10>>)), Some([j \in 1..(NWl - 1) |-> 2])}

MotionResponses ==
    {<<"0", "\n">>, <<"1", "0", "\n">>, <<"0", "0", "\n">>, <<>>}

PositionResponses == {<<"7", "\n">>, <<"E", "1", "\n">>, <<>>}

ExceptionClasses ==
    {"SerialException", "UnicodeDecodeError", "ValueError", "OSError",
     "USBError"}

CaughtInMove_OnlyValueError(e) == e = "ValueError"

\* except Exception as e: of move_stage_and_wait
CaughtInMove(e) == e \in ExceptionClasses

CaughtInGetPosition_Nothing(e) == FALSE

\* except Exception: of get_position
CaughtInGetPosition(e) == e \in ExceptionClasses

\* except Exception as e: of run
CaughtInRun(e) == e \in ExceptionClasses

IsIdle_Prefix(r) == r # <<>> /\ Head(r) = "0"

\* if resp == "0"
IsIdle(r) == r = <<"0">>

\* ------------------------------------------------------------------ state
VARIABLES
    params,         \* step_size, range_input, integration_time_ms, fspeed, dt
    bg_data,        \* background spectrum or None
    is_running,     \* self._is_running
    pc,             \* position of the worker thread in run()
    i,              \* loop index of run()
    wavelengths,    \* wavelength axis
    data2d,         \* preallocated loop_num x n_wl matrix
    y_mat,          \* list of recorded frames
    f,              \* row-major text file
    fcsv,           \* column-major csv file
    polls,          \* completed iterations of the poll loop of the move
    resp,           \* last motion-status response of the move, stripped
    ok,             \* result of the last move_stage_and_wait
    trace,          \* log messages, signals and device commands, in order
    stopAt          \* where the worker stood when stop() was first called

\* the window FROG_GUI and the workers it has created
VARIABLES
    measure_btn,    \* measure_btn.isEnabled()
    stop_btn,       \* stop_btn.isEnabled()
    measure_thread, \* self.measure_thread: 0 for None, or the worker's number
    workers,        \* the MeasurementWorker threads, by number
    gui,            \* the handler the GUI thread is in, and where
    pending         \* finished signals queued for the GUI thread

run_vars == <<params, bg_data, is_running, pc, i, wavelengths, data2d, y_mat,
              f, fcsv, polls, resp, ok, trace, stopAt>>

gui_vars == <<measure_btn, stop_btn, measure_thread, workers, gui, pending>>

\* the command-line program FROG_Ver3.0.py
VARIABLES
    cli             \* where main() stands: position, loop index, polls made

cli_vars == <<cli>>

vars == <<run_vars, gui_vars, cli_vars>>

\* a worker that has not been created yet
NoWorker == [st |-> "absent", is_running |-> TRUE, i |-> 0]

\* the GUI thread is in its event loop
GuiIdle == [h |-> "idle", at |-> "idle"]

Never == [pc |-> "never", n |-> 0]

NoFile == [st |-> "none", header |-> <<>>, rows |-> <<>>]

loop_num_Ceil == (params.range_input + params.step_size - 1) \div params.step_size

loop_num == params.range_input \div params.step_size

n_wl == Len(wavelengths)

t_axis_Const == [k \in 1..loop_num |-> params.dt]

t_axis == [k \in 1..loop_num |-> (k - 1) * params.dt]

\* dt of start_measurement, per step_size
Dt(step_size) == step_size * DtPerPulse

Progress_ZeroBased(idx, n) == (idx * 100) \div n

\* int((i + 1) / loop_num * 100); the float product truncates to the exact
\* floor of (i+1)*100/loop_num for every loop_num below 50 (at loop_num = 50,
\* i = 28 it gives 57 where the exact floor is 58)
Progress(idx, n) == ((idx + 1) * 100) \div n

Close(file) == IF file.st = "open" THEN [file EXCEPT !.st = "closed"] ELSE file

Ev(tag, n) == <<tag, n>>

Init ==
    /\ \E s \in 1..MaxStep, r \in 1..MaxRange :
          params = [step_size |-> s, range_input |-> r,
                    integration_time_ms |-> 100, fspeed |-> 1000,
                    dt |-> Dt(s)]
    /\ bg_data \in Backgrounds
    /\ is_running = TRUE
    /\ pc = "start"
    /\ i = 0
    /\ wavelengths = <<>>
    /\ data2d = <<>>
    /\ y_mat = <<>>
    /\ f = NoFile
    /\ fcsv = NoFile
    /\ polls = 0
    /\ resp = <<>>
    /\ ok = "unset"
    /\ trace = <<>>
    /\ stopAt = Never
    /\ measure_btn = TRUE
    /\ stop_btn = FALSE
    /\ measure_thread = 0
    /\ workers = [w \in 1..MaxWorkers |-> NoWorker]
    /\ gui = GuiIdle
    /\ pending = <<>>
    /\ cli = [pc |-> "measure", i |-> 0, polls |-> 0]


\* ---------------------------------------------------------------- actions
\* except Exception as e: of run(), or the exception leaves run()
Handler(e, tr) ==
    IF CaughtInRun(e)
    THEN /\ trace' = tr \o <<Ev("log.error", 0)>>
         /\ pc' = "finish"
    ELSE /\ trace' = tr
         /\ pc' = "raised"

\* an exception e raised inside the with block of run(): the with statement
\* closes both files on the way out
RaiseInRun(e, tr) ==
    /\ f' = Close(f)
    /\ fcsv' = Close(fcsv)
    /\ Handler(e, tr)

\* run(), up to the wavelength query
QueryWavelengths ==
    /\ pc = "start"
    /\ \/ /\ wavelengths' = DropLeading(RawWavelengths)
          /\ data2d' = [k \in 1..loop_num |-> [w \in 1..NWl |-> 0]]
          /\ trace' = trace \o <<Ev("spec.wavelengths", 0)>>
          /\ pc' = "mkdir"
       \/ \* the device call raises outside the try block
          /\ pc' = "raised"
          /\ UNCHANGED <<wavelengths, data2d, trace>>
    /\ UNCHANGED <<params, bg_data, is_running, i, y_mat, f, fcsv, polls,
                   resp, ok, stopAt>>
    /\ UNCHANGED <<gui_vars, cli_vars>>

\* data directory and the first log lines
MakeDataDir ==
    /\ pc = "mkdir"
    /\ \/ /\ trace' = trace \o <<Ev("log.saveTo", 0)>>
          /\ pc' = "open"
       \/ \* os.makedirs raises outside the try block
          /\ pc' = "raised"
          /\ UNCHANGED trace
    /\ UNCHANGED <<params, bg_data, is_running, i, wavelengths, data2d,
                   y_mat, f, fcsv, polls, resp, ok, stopAt>>
    /\ UNCHANGED <<gui_vars, cli_vars>>

TxtHeader == wavelengths

CsvHeader == [k \in 1..loop_num |-> Fmt2(t_axis[k])]

\* with open(...) as f, open(...) as fcsv: and the two header lines
OpenFiles ==
    /\ pc = "open"
    /\ \/ /\ f' = [st |-> "open", header |-> TxtHeader, rows |-> <<>>]
          /\ fcsv' = [st |-> "open", header |-> CsvHeader, rows |-> <<>>]
          /\ trace' = trace \o <<Ev("files.open", 0)>>
          /\ y_mat' = <<>>
          /\ i' = 0
          /\ pc' = "loop"
       \/ \* the first open raises
          /\ Handler("OSError", trace)
          /\ UNCHANGED <<f, fcsv, y_mat, i>>
       \/ \* the second open raises; the first file is closed again
          /\ f' = [st |-> "closed", header |-> <<>>, rows |-> <<>>]
          /\ Handler("OSError", trace)
          /\ UNCHANGED <<fcsv, y_mat, i>>
    /\ UNCHANGED <<params, bg_data, is_running, wavelengths, data2d, polls,
                   resp, ok, stopAt>>
    /\ UNCHANGED <<gui_vars, cli_vars>>

Interrupted_Never(running) == FALSE

\* if not self._is_running:
Interrupted(running) == ~running

\* for i in range(loop_num): exhausted
LoopExit ==
    /\ pc = "loop"
    /\ i >= loop_num
    /\ pc' = "csv"
    /\ UNCHANGED <<params, bg_data, is_running, i, wavelengths, data2d,
                   y_mat, f, fcsv, polls, resp, ok, trace, stopAt>>
    /\ UNCHANGED <<gui_vars, cli_vars>>

\* if not self._is_running: ... break
LoopInterrupted ==
    /\ pc = "loop"
    /\ i < loop_num
    /\ Interrupted(is_running)
    /\ trace' = trace \o <<Ev("log.interrupted", i)>>
    /\ pc' = "csv"
    /\ UNCHANGED <<params, bg_data, is_running, i, wavelengths, data2d,
                   y_mat, f, fcsv, polls, resp, ok, stopAt>>
    /\ UNCHANGED <<gui_vars, cli_vars>>

MovesFirst_Always(idx) == TRUE

\* if i > 0: the stage is moved before every step but the first
MovesFirst(idx) == idx > 0

\* the step begins: a move when i > 0, the position read otherwise
LoopStep ==
    /\ pc = "loop"
    /\ i < loop_num
    /\ ~Interrupted(is_running)
    /\ pc' = IF MovesFirst(i) THEN "move" ELSE "getpos"
    /\ UNCHANGED <<params, bg_data, is_running, i, wavelengths, data2d,
                   y_mat, f, fcsv, polls, resp, ok, trace, stopAt>>
    /\ UNCHANGED <<gui_vars, cli_vars>>


MoveFailed_Ignored(okv) == FALSE

\* if not ok: of run()
MoveFailed(okv) == okv # "True"

\* move_stage_and_wait returns result to run(); tr is the trace so far
MoveReturn(result, tr) ==
    /\ ok' = result
    /\ polls' = 0
    /\ IF MoveFailed(result)
       THEN /\ trace' = tr \o <<Ev("log.moveFailed", i)>>
            /\ pc' = "csv"
       ELSE /\ trace' = tr
            /\ pc' = "getpos"
    /\ UNCHANGED <<f, fcsv>>

\* an exception e raised inside move_stage_and_wait
MoveRaise(e, tr) ==
    IF CaughtInMove(e)
    THEN MoveReturn("False", tr \o <<Ev("log.moveException", i)>>)
    ELSE /\ RaiseInRun(e, tr)
         /\ polls' = 0
         /\ UNCHANGED ok

\* move_stage_and_wait: the start message and the two commands
MoveSend ==
    /\ pc = "move"
    /\ LET tr0 == trace \o <<Ev("log.moveStart", i)>>
           tr1 == tr0 \o <<Ev("ser.speed", params.fspeed)>>
           tr2 == tr1 \o <<Ev("ser.move", params.step_size)>>
       IN  \/ /\ trace' = tr2
              /\ polls' = 0
              /\ resp' = <<>>
              /\ pc' = "poll"
              /\ UNCHANGED <<f, fcsv, ok>>
           \/ \* the write of the speed-set command raises
              /\ MoveRaise("SerialException", tr0)
              /\ UNCHANGED resp
           \/ \* the write of the move command raises
              /\ MoveRaise("SerialException", tr1)
              /\ UNCHANGED resp
    /\ UNCHANGED <<params, bg_data, is_running, i, wavelengths, data2d,
                   y_mat, stopAt>>
    /\ UNCHANGED <<gui_vars, cli_vars>>

\* one iteration of for _ in range(120): and, after the last one, the
\* timeout return
MovePoll ==
    /\ pc = "poll"
    /\ polls < MaxPolls
    /\ \/ \E raw \in MotionResponses :
            LET r == Strip(raw) IN
            IF IsIdle(r)
            THEN /\ resp' = r
                 /\ MoveReturn("True",
                               trace \o <<Ev("log.moveStopped", i)>>)
            ELSE IF polls + 1 = MaxPolls
            THEN /\ resp' = r
                 /\ MoveReturn("False",
                               trace \o <<Ev("log.moveTimeout", i)>>)
            ELSE /\ polls' = polls + 1
                 /\ resp' = r
                 /\ UNCHANGED <<ok, trace, pc, f, fcsv>>
       \/ \* the write, the read or the decoding raises
          \E e \in {"SerialException", "UnicodeDecodeError"} :
            /\ MoveRaise(e, trace)
            /\ UNCHANGED resp
    /\ UNCHANGED <<params, bg_data, is_running, i, wavelengths, data2d,
                   y_mat, stopAt>>
    /\ UNCHANGED <<gui_vars, cli_vars>>


\* int(pos) of get_position: the position, or ValueError
PositionOf(text) ==
    IF IsIntLiteral(text) THEN Some(ParseInt(text)) ELSE None

\* cur_pos if cur_pos is not None else -999999
PosSignal(cur_pos) == IF cur_pos.some THEN cur_pos.v ELSE UnknownPos

\* the outcomes of one call of get_position: the position or None that it
\* returns, or the exception that leaves it
PositionOutcomes ==
    {[raised |-> "", cur_pos |-> PositionOf(Strip(raw)), sent |-> TRUE] :
        raw \in {r \in PositionResponses : IsIntLiteral(Strip(r))}}
    \cup {IF CaughtInGetPosition("ValueError")
          THEN [raised |-> "", cur_pos |-> None, sent |-> TRUE]
          ELSE [raised |-> "ValueError", cur_pos |-> None, sent |-> TRUE] :
              raw \in {r \in PositionResponses : ~IsIntLiteral(Strip(r))}}
    \cup {IF CaughtInGetPosition("SerialException")
          THEN [raised |-> "", cur_pos |-> None, sent |-> FALSE]
          ELSE [raised |-> "SerialException", cur_pos |-> None,
                sent |-> FALSE]}

PosTrace(o, idx) ==
    IF o.sent THEN <<Ev("ser.pos?", idx)>> ELSE <<>>

\* cur_pos = self.get_position() of the step, posUpdated and the start message
GetPosition ==
    /\ pc = "getpos"
    /\ \E o \in PositionOutcomes :
          IF o.raised # ""
          THEN RaiseInRun(o.raised, trace \o PosTrace(o, i))
          ELSE /\ trace' = trace \o PosTrace(o, i)
                             \o <<Ev("sig.pos", PosSignal(o.cur_pos)),
                                  Ev("log.measStart", i)>>
               /\ pc' = "setint"
               /\ UNCHANGED <<f, fcsv>>
    /\ UNCHANGED <<params, bg_data, is_running, i, wavelengths, data2d,
                   y_mat, polls, resp, ok, stopAt>>
    /\ UNCHANGED <<gui_vars, cli_vars>>

\* the argument handed to spectrometer.integration_time_micros
IntegrationArg(integration_time_ms) == integration_time_ms

\* self.spectrometer.integration_time_micros(integration_time_ms)
SetIntegrationTime ==
    /\ pc = "setint"
    /\ \/ /\ trace' = trace \o
                <<Ev("spec.setint", IntegrationArg(params.integration_time_ms))>>
          /\ pc' = "capture"
          /\ UNCHANGED <<f, fcsv>>
       \/ RaiseInRun("USBError", trace)
    /\ UNCHANGED <<params, bg_data, is_running, i, wavelengths, data2d,
                   y_mat, polls, resp, ok, stopAt>>
    /\ UNCHANGED <<gui_vars, cli_vars>>

TxtRow_RawDelay(delay, y, max_int) ==
    [delay |-> delay, vals |-> y, max |-> RoundHalfEven(max_int, 1000)]

\* the line appended to the row-major file for one frame
TxtRow(delay, y, max_int) ==
    [delay |-> Fmt2(delay), vals |-> y, max |-> RoundHalfEven(max_int, 1000)]

\* the sleep, the capture, the subtraction and the recording of one frame
Capture ==
    /\ pc = "capture"
    /\ \/ \E live \in LiveVectors :
            LET y0  == DropLeading(Padded(live))
                sub == BgApplies(y0, bg_data)
                y   == IF sub /\ NpCanSubtract(y0, bg_data.v)
                       THEN NpSubtract(y0, bg_data.v) ELSE y0
                tr0 == trace \o <<Ev("spec.intensities", i)>>
                tr1 == IF sub THEN tr0 \o <<Ev("log.bgSub", i)>> ELSE tr0
                max_int == NanMax(y)
            IN  IF sub /\ ~NpCanSubtract(y0, bg_data.v)
                THEN \* numpy refuses the shapes
                     /\ RaiseInRun("ValueError", tr0)
                     /\ UNCHANGED <<data2d, y_mat, i>>
                ELSE IF Len(y) # n_wl
                THEN \* data2d[i, :] = y refuses the shape
                     /\ RaiseInRun("ValueError",
                                   tr1 \o <<Ev("log.measDone", i)>>)
                     /\ UNCHANGED <<data2d, y_mat, i>>
                ELSE /\ data2d' = [data2d EXCEPT ![i + 1] = y]
                     /\ f' = [f EXCEPT !.rows =
                                 Append(@, TxtRow(t_axis[i + 1], y, max_int))]
                     /\ y_mat' = Append(y_mat, y)
                     /\ trace' = tr1 \o
                           <<Ev("log.measDone", i), Ev("f.row", i),
                             Ev("sig.progress", Progress(i, loop_num)),
                             Ev("sig.dataUpdated", i)>>
                     /\ i' = i + 1
                     /\ pc' = "loop"
                     /\ UNCHANGED fcsv
       \/ \* spectrometer.intensities() raises
          /\ RaiseInRun("USBError", trace)
          /\ UNCHANGED <<data2d, y_mat, i>>
    /\ UNCHANGED <<params, bg_data, is_running, wavelengths, polls, resp,
                   ok, stopAt>>
    /\ UNCHANGED <<gui_vars, cli_vars>>

CsvRows_DropsLast(m, wl) ==
    [w \in 1..Len(wl) |->
        [wl |-> Fmt1(wl[w]),
         vals |-> [k \in 1..(Len(m) - 1) |-> Fmt4(m[k][w])]]]

\* the lines of the column-major file: one per wavelength
CsvRows(m, wl) ==
    LET t == Transpose(m, Len(wl))
    IN  [w \in 1..Len(wl) |->
            [wl |-> Fmt1(wl[w]),
             vals |-> [k \in 1..Len(m) |-> Fmt4(t[w][k])]]]

\* if len(y_mat) > 0: the column-major file is written
WriteCsv ==
    /\ pc = "csv"
    /\ fcsv' = IF Len(y_mat) > 0
               THEN [fcsv EXCEPT !.rows = CsvRows(y_mat, wavelengths)]
               ELSE fcsv
    /\ trace' = trace \o <<Ev("fcsv.rows", Len(y_mat))>>
    /\ pc' = "finalpos"
    /\ UNCHANGED <<params, bg_data, is_running, i, wavelengths, data2d,
                   y_mat, f, polls, resp, ok, stopAt>>
    /\ UNCHANGED <<gui_vars, cli_vars>>

\* the position read after the loop, the completion message, dataSaved, and
\* the end of the with block
FinalPosition ==
    /\ pc = "finalpos"
    /\ \E o \in PositionOutcomes :
          IF o.raised # ""
          THEN RaiseInRun(o.raised, trace \o PosTrace(o, loop_num))
          ELSE /\ trace' = trace \o PosTrace(o, loop_num)
                             \o <<Ev("sig.pos", PosSignal(o.cur_pos)),
                                  Ev("log.complete", 0),
                                  Ev("sig.dataSaved", 0)>>
               /\ f' = Close(f)
               /\ fcsv' = Close(fcsv)
               /\ pc' = "finish"
    /\ UNCHANGED <<params, bg_data, is_running, i, wavelengths, data2d,
                   y_mat, polls, resp, ok, stopAt>>
    /\ UNCHANGED <<gui_vars, cli_vars>>

\* self.finished.emit()
EmitFinished ==
    /\ pc = "finish"
    /\ trace' = trace \o <<Ev("sig.finished", 0)>>
    /\ pc' = "done"
    /\ UNCHANGED <<params, bg_data, is_running, i, wavelengths, data2d,
                   y_mat, f, fcsv, polls, resp, ok, stopAt>>
    /\ UNCHANGED <<gui_vars, cli_vars>>

\* the part of run() a position of the worker belongs to: before the loop,
\* at the top of the loop (between two steps), inside a step, after the loop
Phase(p) ==
    CASE p \in {"start", "mkdir", "open"} -> "before"
      [] p = "loop" -> "boundary"
      [] p \in {"move", "poll", "getpos", "setint", "capture"} -> "step"
      [] OTHER -> "after"

\* MeasurementWorker.stop, called from the GUI thread
stop ==
    /\ is_running' = FALSE
    /\ stopAt' = IF stopAt = Never
                 THEN [pc |-> Phase(pc), n |-> Len(y_mat)]
                 ELSE stopAt
    /\ UNCHANGED <<params, bg_data, pc, i, wavelengths, data2d, y_mat, f,
                   fcsv, polls, resp, ok, trace>>
    /\ UNCHANGED <<gui_vars, cli_vars>>

Next ==
    \/ QueryWavelengths
    \/ MakeDataDir
    \/ OpenFiles
    \/ LoopExit
    \/ LoopInterrupted
    \/ LoopStep
    \/ MoveSend
    \/ MovePoll
    \/ GetPosition
    \/ SetIntegrationTime
    \/ Capture
    \/ WriteCsv
    \/ FinalPosition
    \/ EmitFinished
    \/ stop

Spec == Init /\ [][Next]_vars

\* ------------------------------------------------- the window and its workers
\* The GUI thread runs one handler at a time; a handler that talks to a
\* device is cut where it waits for the device (gui.at = "ser" between the
\* write of a command and the readline of its reply, gui.at = "spec"
\* between integration_time_micros and the return of intensities).  A worker
\* is run() seen from outside, cut at the same places.  Both devices are
\* taken to be connected, as start_measurement requires.

\* handlers that talk to the stage controller
SerialHandlers ==
    {"move_stage_manual", "set_stage_position_manual", "set_home_position"}

\* handlers that talk to the spectrometer
SpectrometerHandlers == {"measure_bg", "test_measurement"}

StartButtonDuringRun_Enabled == TRUE

\* measure_btn.setEnabled(False) of start_measurement
StartButtonDuringRun == FALSE

\* a clicked signal is delivered only by an enabled button, and only when
\* the GUI thread is back in its event loop
Clicked(btn_enabled) == gui = GuiIdle /\ btn_enabled

\* the workers created so far
Created == {w \in 1..MaxWorkers : workers[w].st # "absent"}

start_measurement ==
    /\ Clicked(measure_btn)
    /\ Cardinality(Created) < MaxWorkers
    /\ LET w == Cardinality(Created) + 1 IN
       /\ workers' = [workers EXCEPT ![w] =
                         [st |-> "start", is_running |-> TRUE, i |-> 0]]
       /\ measure_thread' = w
    /\ measure_btn' = StartButtonDuringRun
    /\ stop_btn' = TRUE
    /\ UNCHANGED <<gui, pending>>
    /\ UNCHANGED <<run_vars, cli_vars>>

stop_measurement ==
    /\ Clicked(stop_btn)
    /\ measure_thread # 0
    /\ workers' = [workers EXCEPT ![measure_thread].is_running = FALSE]
    /\ UNCHANGED <<measure_btn, stop_btn, measure_thread, gui, pending>>
    /\ UNCHANGED <<run_vars, cli_vars>>

\* the slot of the worker's finished signal; it ends in
\* update_position_label(), which queries the stage controller
measurement_finished ==
    /\ gui = GuiIdle
    /\ pending # <<>>
    /\ pending' = Tail(pending)
    /\ measure_btn' = TRUE
    /\ stop_btn' = FALSE
    /\ gui' = [h |-> "measurement_finished", at |-> "ser"]
    /\ UNCHANGED <<measure_thread, workers>>
    /\ UNCHANGED <<run_vars, cli_vars>>

\* a handler writes its first command to a device
BeginHandler(h, dev) ==
    /\ gui = GuiIdle
    /\ gui' = [h |-> h, at |-> dev]
    /\ UNCHANGED <<measure_btn, stop_btn, measure_thread, workers, pending>>
    /\ UNCHANGED <<run_vars, cli_vars>>

move_stage_manual == BeginHandler("move_stage_manual", "ser")

set_stage_position_manual == BeginHandler("set_stage_position_manual", "ser")

set_home_position == BeginHandler("set_home_position", "ser")

measure_bg == BeginHandler("measure_bg", "spec")

test_measurement == BeginHandler("test_measurement", "spec")

\* the reply of the stage controller arrives (or the read times out) and
\* the handler returns
GuiReadline ==
    /\ gui.at = "ser"
    /\ gui' = GuiIdle
    /\ UNCHANGED <<measure_btn, stop_btn, measure_thread, workers, pending>>
    /\ UNCHANGED <<run_vars, cli_vars>>

\* intensities() returns; test_measurement goes on to
\* update_position_label(), measure_bg returns
GuiIntensities ==
    /\ gui.at = "spec"
    /\ gui' = IF gui.h = "test_measurement"
              THEN [h |-> "test_measurement", at |-> "ser"]
              ELSE GuiIdle
    /\ UNCHANGED <<measure_btn, stop_btn, measure_thread, workers, pending>>
    /\ UNCHANGED <<run_vars, cli_vars>>

\* worker w moves on to st, the window is left alone
WorkerGoes(w, st, idx) ==
    /\ workers' = [workers EXCEPT ![w].st = st, ![w].i = idx]
    /\ UNCHANGED <<measure_btn, stop_btn, measure_thread, gui>>
    /\ UNCHANGED <<run_vars, cli_vars>>

\* self.finished.emit(): the signal is queued for the GUI thread
WorkerEmits(w) ==
    /\ WorkerGoes(w, "emitted", workers[w].i)
    /\ pending' = Append(pending, w)

\* run() up to the loop; an exception before the try leaves run() and
\* finished is never emitted
WorkerSetup(w) ==
    /\ workers[w].st = "start"
    /\ \/ WorkerGoes(w, "loop", 0)
       \/ WorkerGoes(w, "dead", 0)
    /\ UNCHANGED pending

\* the top of the loop body: leave the loop, or send the first command of
\* the step to the stage controller
WorkerLoop(w) ==
    /\ workers[w].st = "loop"
    /\ IF Interrupted(workers[w].is_running) \/ workers[w].i >= loop_num
       THEN WorkerGoes(w, "finalpos", workers[w].i)
       ELSE WorkerGoes(w, "ser", workers[w].i)
    /\ UNCHANGED pending

\* the replies of the stage controller for the step have been read: go on
\* to the capture, or break after a failed move
WorkerReadline(w) ==
    /\ workers[w].st = "ser"
    /\ \/ WorkerGoes(w, "step", workers[w].i)
       \/ /\ workers[w].i > 0
          /\ WorkerGoes(w, "finalpos", workers[w].i)
    /\ UNCHANGED pending

\* integration_time_micros(); an exception goes to the handler of run()
WorkerSetIntegration(w) ==
    /\ workers[w].st = "step"
    /\ \/ WorkerGoes(w, "spec", workers[w].i) /\ UNCHANGED pending
       \/ WorkerEmits(w)

\* intensities() returns and the frame is recorded, or it raises
WorkerIntensities(w) ==
    /\ workers[w].st = "spec"
    /\ \/ WorkerGoes(w, "loop", workers[w].i + 1) /\ UNCHANGED pending
       \/ WorkerEmits(w)

\* the position query after the loop is written
WorkerFinalQuery(w) ==
    /\ workers[w].st = "finalpos"
    /\ WorkerGoes(w, "finalser", workers[w].i)
    /\ UNCHANGED pending

\* its reply is read, run() logs, emits finished and returns
WorkerFinish(w) ==
    /\ workers[w].st = "finalser"
    /\ WorkerEmits(w)

WorkerStep ==
    \E w \in 1..MaxWorkers :
        \/ WorkerSetup(w)
        \/ WorkerLoop(w)
        \/ WorkerReadline(w)
        \/ WorkerSetIntegration(w)
        \/ WorkerIntensities(w)
        \/ WorkerFinalQuery(w)
        \/ WorkerFinish(w)

NextGui ==
    \/ start_measurement
    \/ stop_measurement
    \/ measurement_finished
    \/ move_stage_manual
    \/ set_stage_position_manual
    \/ set_home_position
    \/ measure_bg
    \/ test_measurement
    \/ GuiReadline
    \/ GuiIntensities
    \/ WorkerStep

SpecGui == Init /\ [][NextGui]_vars

\* ------------------------------------------- the command-line program
\* main() of FROG_Ver3.0.py from the start of the scan: per step a
\* capture, then move_stage; after the scan the return to the home position
\* and its wait.  cli.polls counts the motion-status queries of the
\* current wait that were not answered idle; it stops counting at
\* CliPollCap, the wait does not.

\* what readline() can return to the motion-status query
CliResponses == MotionResponses \cup {<<"1", "\n">>}

\* if "0" in response
CliIdle(r) == \E k \in 1..Len(r) : r[k] = "0"

\* one more unanswered poll
CliCount(n) == IF n < CliPollCap THEN n + 1 ELSE n

\* one iteration of the scan loop up to the two commands of move_stage
CliMeasure ==
    /\ cli.pc = "measure"
    /\ cli.i < loop_num
    /\ cli' = [cli EXCEPT !.pc = "move_poll", !.polls = 0]
    /\ UNCHANGED <<run_vars, gui_vars>>

\* one iteration of while True: of move_stage
CliMovePoll ==
    /\ cli.pc = "move_poll"
    /\ \E raw \in CliResponses :
          IF CliIdle(Strip(raw))
          THEN cli' = [pc |-> "measure", i |-> cli.i + 1, polls |-> 0]
          ELSE cli' = [cli EXCEPT !.polls = CliCount(cli.polls)]
    /\ UNCHANGED <<run_vars, gui_vars>>

\* the scan is over: AXIs1:GO 3 is sent
CliGoHome ==
    /\ cli.pc = "measure"
    /\ cli.i >= loop_num
    /\ cli' = [cli EXCEPT !.pc = "home_poll", !.polls = 0]
    /\ UNCHANGED <<run_vars, gui_vars>>

\* one iteration of while True: of the return to the home position
CliHomePoll ==
    /\ cli.pc = "home_poll"
    /\ \E raw \in CliResponses :
          IF CliIdle(Strip(raw))
          THEN cli' = [cli EXCEPT !.pc = "exit", !.polls = 0]
          ELSE cli' = [cli EXCEPT !.polls = CliCount(cli.polls)]
    /\ UNCHANGED <<run_vars, gui_vars>>

\* ser.write or ser.readline raises: nothing catches it, the program ends
CliSerialFault ==
    /\ cli.pc \in {"move_poll", "home_poll"}
    /\ cli' = [cli EXCEPT !.pc = "crashed"]
    /\ UNCHANGED <<run_vars, gui_vars>>

NextCli ==
    \/ CliMeasure
    \/ CliMovePoll
    \/ CliGoHome
    \/ CliHomePoll
    \/ CliSerialFault

SpecCli == Init /\ [][NextCli]_vars


\* ------------------------------------------------- reading the trace
LoggedIn(tr, tag) == \E k \in 1..Len(tr) : tr[k][1] = tag

Logged(tag) == LoggedIn(trace, tag)

HasEv(tag, n) == \E k \in 1..Len(trace) : trace[k] = <<tag, n>>

Count(tag) == Cardinality({k \in 1..Len(trace) : trace[k][1] = tag})

\* the entry appended by the step being taken, if it appends tag
NewlyLogged(tag) == LoggedIn(trace', tag) /\ ~LoggedIn(trace, tag)

\* what the run has reported
Cancelled == Logged("log.interrupted")

Failed == Logged("log.moveFailed") \/ Logged("log.error")

CompletionReported == Logged("log.complete") \/ Logged("sig.dataSaved")

Terminated == pc \in {"done", "raised"}

AfterLoop == pc \in {"csv", "finalpos", "finish", "done"}

\* the frame that a capture of live must record under background bg
ExpectedFrame(live, bg) ==
    IF bg.some /\ Len(bg.v) = Len(live)
    THEN [j \in 1..Len(live) |-> live[j] - bg.v[j]]
    ELSE live

IsMaxOf(m, v) ==
    /\ \E j \in 1..Len(v) : v[j] = m
    /\ \A j \in 1..Len(v) : v[j] <= m

\* --------------------------------------------------------------- claims

\* stop() was first called between step k and step k+1, 0 <= k < loop_num-1
StoppedAtBoundary ==
    /\ stopAt.pc = "boundary"
    /\ stopAt.n >= 1
    /\ stopAt.n < loop_num

\* C1 (as stated): when cancellation is requested after step k's frame has
\* been recorded and before step k+1 begins, the run ends with exactly k+1
\* frames, BOTH output files hold exactly k+1 data rows, an interruption
\* message is logged and the run is Cancelled, not Failed.
C1_Original ==
    (Terminated /\ StoppedAtBoundary) =>
        /\ pc = "done"
        /\ Len(y_mat) = stopAt.n
        /\ Len(f.rows) = stopAt.n
        /\ Len(fcsv.rows) = stopAt.n
        /\ Cancelled
        /\ ~Failed

\* C1 (amended): when cancellation is requested after step k's frame has
\* been recorded and before step k+1 begins, the run ends with exactly k+1
\* frames, the row-major file holds its header and exactly k+1 data rows,
\* the column-major file holds its header and one row per wavelength with
\* exactly k+1 intensity values each, an interruption message is logged and
\* the run is Cancelled, not Failed.
C1_CancelAtBoundary ==
    (Terminated /\ StoppedAtBoundary) =>
        /\ pc = "done"
        /\ Len(y_mat) = stopAt.n
        /\ f.st = "closed" /\ f.header = wavelengths
        /\ Len(f.rows) = stopAt.n
        /\ fcsv.st = "closed" /\ Len(fcsv.header) = loop_num
        /\ Len(fcsv.rows) = n_wl
        /\ \A w \in 1..Len(fcsv.rows) : Len(fcsv.rows[w].vals) = stopAt.n
        /\ HasEv("log.interrupted", stopAt.n)
        /\ ~Failed

C1_Witness ==
    /\ pc = "done"
    /\ StoppedAtBoundary
    /\ stopAt.n = 1
    /\ Len(y_mat) = 1
    /\ Cancelled

\* C2: when the move of a step s > 0 times out (the 120th poll, like the 119
\* before it, answers something other than "0"), move_stage_and_wait
\* returns failure, the run is marked failed for step s, and no position
\* read, integration-time set, capture, frame, row or progress event exists
\* for step s or any later step.
C2_NothingAfterTimeout ==
    \A k \in 1..Len(trace) :
        trace[k][1] = "log.moveTimeout" =>
            LET s == trace[k][2] IN
            /\ s > 0
            /\ ok = "False"
            /\ HasEv("log.moveFailed", s)
            /\ AfterLoop
            /\ i = s
            /\ Len(y_mat) = s
            /\ Len(f.rows) = s
            /\ Count("spec.setint") = s
            /\ Count("spec.intensities") = s
            /\ Count("sig.progress") = s
            /\ Count("sig.dataUpdated") = s
            /\ \A j \in s..(loop_num - 1) :
                  /\ ~HasEv("ser.pos?", j)
                  /\ ~HasEv("log.measStart", j)
                  /\ ~HasEv("spec.intensities", j)
                  /\ ~HasEv("f.row", j)
                  /\ ~HasEv("sig.dataUpdated", j)

C2_TimeoutIsLastPoll ==
    /\ NewlyLogged("log.moveTimeout") =>
          pc = "poll" /\ polls + 1 = MaxPolls /\ resp' # <<"0">>
    /\ (pc = "poll" /\ polls + 1 = MaxPolls /\ resp' # resp
          /\ resp' # <<"0">>) => NewlyLogged("log.moveTimeout")

C2_TimeoutFailsRun ==
    [] C2_NothingAfterTimeout /\ [][C2_TimeoutIsLastPoll]_vars

C2_Witness ==
    /\ pc = "done"
    /\ HasEv("log.moveTimeout", 1)
    /\ Len(y_mat) = 1
    /\ Count("sig.progress") = 1

\* C3: when the move of step s >= 1 fails, or the run is cancelled, the
\* frames of steps 0..s-1 are all kept: the frame list and the matrix hold
\* them, the row-major file holds their s rows, the column-major file
\* written at the end holds s values in every wavelength row; and a
\* recorded frame or row never changes afterwards.
C3_Retained ==
    (AfterLoop /\ (Logged("log.moveFailed") \/ Cancelled)) =>
        /\ Len(y_mat) = i
        /\ \A k \in 1..i : data2d[k] = y_mat[k] /\ f.rows[k].vals = y_mat[k]
        /\ Len(f.rows) = i
        /\ (pc # "csv" /\ i >= 1) =>
              /\ Len(fcsv.rows) = n_wl
              /\ \A w \in 1..Len(fcsv.rows) : Len(fcsv.rows[w].vals) = i

C3_Unchanged ==
    \A k \in 1..Len(y_mat) :
        /\ Len(y_mat') >= k /\ y_mat'[k] = y_mat[k]
        /\ Len(f'.rows) >= k /\ f'.rows[k] = f.rows[k]
        /\ data2d'[k] = data2d[k]

C3_FramesRetained == [] C3_Retained /\ [][C3_Unchanged]_vars

C3_Witness ==
    /\ pc = "done"
    /\ HasEv("log.moveFailed", 1)
    /\ Len(y_mat) = 1
    /\ Len(fcsv.rows) = NWl
    /\ Len(fcsv.rows[1].vals) = 1

\* C4: the terminal states are mutually exclusive: completion (the
\* completion message, the data-saved event) is reported only by a run that
\* was neither cancelled nor failed, and a finished run is in exactly one of
\* Completed, Cancelled, Failed.
C4_TerminalExclusive ==
    /\ CompletionReported => (~Cancelled /\ ~Failed)
    /\ pc = "done" =>
          Cardinality({t \in {"Completed", "Cancelled", "Failed"} :
              \/ t = "Completed" /\ CompletionReported
              \/ t = "Cancelled" /\ Cancelled
              \/ t = "Failed" /\ Failed}) = 1

\* C5: on every path by which run() stops, an exception before the loop
\* included, both output files are closed and finished has been emitted.
C5_AllPathsFinish ==
    Terminated =>
        /\ Logged("sig.finished")
        /\ f.st # "open"
        /\ fcsv.st # "open"


LastEv(tr) == tr[Len(tr)]

\* C6: move_stage_and_wait sends one speed-set and one move command and
\* then polls at most 120 times; it polls again only after a response other
\* than "0", returns success exactly on a response "0" and polls no more,
\* and returns Timeout exactly when the 120th poll, like every poll before
\* it, answered something other than "0" and nothing raised.
C6_WhilePolling ==
    pc = "poll" =>
        /\ polls < MaxPolls
        /\ polls > 0 => resp # <<"0">>
        /\ Len(trace) >= 3
        /\ trace[Len(trace) - 2] = <<"log.moveStart", i>>
        /\ trace[Len(trace) - 1] = <<"ser.speed", params.fspeed>>
        /\ trace[Len(trace)] = <<"ser.move", params.step_size>>
        /\ Count("ser.speed") = Count("log.moveStart")
        /\ Count("ser.move") = Count("log.moveStart")

C6_PollStep ==
    /\ (pc = "poll" /\ pc' = "poll") =>
          /\ trace' = trace
          /\ \/ polls' = polls /\ resp' = resp
             \/ /\ polls' = polls + 1
                /\ resp' \in {<<"1", "0">>, <<"0", "0">>, <<>>}
    /\ (pc = "poll" /\ pc' # "poll") =>
          \/ /\ ok' = "True"
             /\ resp' = <<"0">>
             /\ pc' = "getpos"
             /\ trace' = Append(trace, <<"log.moveStopped", i>>)
          \/ /\ ok' = "False"
             /\ polls + 1 = MaxPolls
             /\ resp' \in {<<"1", "0">>, <<"0", "0">>, <<>>}
             /\ trace' = trace \o <<<<"log.moveTimeout", i>>,
                                    <<"log.moveFailed", i>>>>
          \/ /\ ok' = "False"
             /\ resp' = resp
             /\ trace' = trace \o <<<<"log.moveException", i>>,
                                    <<"log.moveFailed", i>>>>
    /\ NewlyLogged("log.moveTimeout") => (pc = "poll" /\ polls + 1 = MaxPolls)

C6_MoveProtocol == [] C6_WhilePolling /\ [][C6_PollStep]_vars

C6_Witness ==
    /\ pc = "done"
    /\ HasEv("ser.speed", params.fspeed)
    /\ HasEv("ser.move", params.step_size)
    /\ HasEv("log.moveStopped", 1)
    /\ ok = "True"
    /\ resp = <<"0">>
    /\ Len(y_mat) = 2

\* C7: an I/O error of the serial link anywhere in move_stage_and_wait
\* comes back to run() as a failed move and never as an exception: the
\* worker leaves the move only for the position read (success) or for the
\* end of the loop (failure), and a run whose move raised is failed for that
\* step just as after a timeout, with no error caught by run() itself.
C7_AfterMoveException ==
    \A k \in 1..Len(trace) :
        trace[k][1] = "log.moveException" =>
            LET s == trace[k][2] IN
            /\ ok = "False"
            /\ HasEv("log.moveFailed", s)
            /\ AfterLoop
            /\ i = s
            /\ Len(y_mat) = s
            /\ ~Logged("log.error")

C7_MoveNeverRaises ==
    pc \in {"move", "poll"} =>
        /\ pc' \in {"move", "poll", "getpos", "csv"}
        /\ ~NewlyLogged("log.error")
        /\ pc' = "csv" =>
              /\ ok' = "False"
              /\ LastEv(trace') = <<"log.moveFailed", i>>
              /\ \/ trace'[Len(trace') - 1] = <<"log.moveException", i>>
                 \/ trace'[Len(trace') - 1] = <<"log.moveTimeout", i>>

C7_SerialFaultIsFailure ==
    [] C7_AfterMoveException /\ [][C7_MoveNeverRaises]_vars

C7_Witness ==
    /\ pc = "done"
    /\ HasEv("log.moveException", 1)
    /\ HasEv("ser.move", 1)
    /\ Len(y_mat) = 1
    /\ f.st = "closed"

\* C8: a position query that cannot be read or parsed never stops the run:
\* the position read of a step always leads to setIntegrationTime, the
\* final position read always leads to the completion report, neither logs
\* an error, and every recorded frame is the frame its capture yields
\* whatever the position read gave.
C8_PositionStep ==
    /\ pc = "getpos" =>
          /\ pc' \in {"getpos", "setint"}
          /\ pc' = "setint" => LastEv(trace') = <<"log.measStart", i>>
    /\ pc = "finalpos" =>
          /\ pc' \in {"finalpos", "finish"}
          /\ pc' = "finish" => LastEv(trace') = <<"sig.dataSaved", 0>>
    /\ pc \in {"getpos", "finalpos"} => ~NewlyLogged("log.error")

C8_FramesAsCaptured ==
    \A k \in 1..Len(y_mat) :
        \E live \in LiveVectors : y_mat[k] = ExpectedFrame(live, bg_data)

C8_PositionFailureNotFatal ==
    [] C8_FramesAsCaptured /\ [][C8_PositionStep]_vars

C8_Witness ==
    /\ pc = "done"
    /\ Len(y_mat) = 2
    /\ Count("sig.pos") = 3
    /\ \A k \in 1..Len(trace) :
          trace[k][1] = "sig.pos" => trace[k][2] = UnknownPos
    /\ Count("ser.pos?") = 3
    /\ Logged("log.complete")

\* a background of the length of the capture was supplied
BgMatches == bg_data.some /\ Len(bg_data.v) = NWl

\* a background of another length was supplied
BgMismatch == bg_data.some /\ Len(bg_data.v) # NWl

\* C9: with a background as long as the capture, the frame a step records
\* (in the frame list, the matrix and the row-major file) is live[j] -
\* background[j] at every index j, negative where the background is larger,
\* and the maximum reported for the step is the maximum of that difference;
\* live = [5, 3, 9] and background = [2, 3, 10] give [3, 0, -1].
C9_FrameStep ==
    (BgMatches /\ Len(y_mat') = Len(y_mat) + 1) =>
        LET n  == Len(y_mat')
            fr == y_mat'[n]
        IN  /\ \E live \in LiveVectors :
                  \A j \in 1..NWl : fr[j] = live[j] - bg_data.v[j]
            /\ data2d'[n] = fr
            /\ f'.rows[n].vals = fr
            /\ \E m \in {fr[j] : j \in 1..NWl} :
                  /\ IsMaxOf(m, fr)
                  /\ f'.rows[n].max = RoundHalfEven(m, 1000)
            /\ NewlyLogged("log.bgSub") \/ Logged("log.bgSub")

C9_Example == NpSubtract(<<5, 3, 9>>, <<2, 3, 10>>) = <<3, 0, 0 - 1>>

C9_UnclampedSubtraction == [] C9_Example /\ [][C9_FrameStep]_vars

C9_Witness ==
    /\ BgMatches
    /\ Len(y_mat) >= 1
    /\ y_mat[1][1] = 3 /\ y_mat[1][2] = 0 /\ y_mat[1][3] = 0 - 1
    /\ f.rows[1].vals = y_mat[1]

\* C10 (as stated): with a background of another length than the capture
\* the live vector is stored unmodified, the mismatch is logged, and the
\* step does not fail.
C10_Original ==
    (BgMismatch /\ Len(y_mat) >= 1) =>
        /\ \A k \in 1..Len(y_mat) : y_mat[k] \in LiveVectors
        /\ Logged("log.bgMismatch")
        /\ ~Logged("log.error")

\* C10 (amended): with a background of another length than the capture the
\* live vector is stored unmodified and nothing is logged about the
\* background (the subtraction is skipped silently); the step does not
\* fail: once the intensities are read the frame is appended and the run
\* goes on to the next step.
C10_FramesUnmodified ==
    BgMismatch =>
        /\ \A k \in 1..Len(y_mat) :
              /\ y_mat[k] \in LiveVectors
              /\ f.rows[k].vals = y_mat[k]
        /\ ~Logged("log.bgSub")
        /\ ~Logged("log.bgMismatch")

C10_CaptureStep ==
    (BgMismatch /\ pc = "capture" /\ Len(trace') > Len(trace)
        /\ trace'[Len(trace) + 1] = <<"spec.intensities", i>>) =>
        /\ Len(y_mat') = Len(y_mat) + 1
        /\ y_mat'[Len(y_mat')] \in LiveVectors
        /\ pc' = "loop"
        /\ i' = i + 1
        /\ ~NewlyLogged("log.error")

C10_MismatchSkipsSubtraction ==
    [] C10_FramesUnmodified /\ [][C10_CaptureStep]_vars

C10_Witness ==
    /\ BgMismatch
    /\ pc = "done"
    /\ Len(y_mat) = 2
    /\ Logged("log.complete")

\* ------------------------------------------------------------------- C11
NeverStopped == stopAt = Never

MoveNeverFailed == ~Logged("log.moveFailed")

NoException == ~Logged("log.error") /\ pc # "raised"

\* C11: a run in which no move fails, no exception occurs and stop() is
\* never called ends completed with exactly range_input // step_size
\* frames: the completion is reported, nothing is reported as interrupted
\* or failed, the frame list, the row-major file and the progress events
\* count range_input // step_size each; when step_size divides range_input
\* the steps cover the range exactly, and when range_input < step_size the
\* run completes with zero frames.
C11_FullRun ==
    (pc = "done" /\ NeverStopped /\ MoveNeverFailed /\ NoException) =>
        LET n == params.range_input \div params.step_size IN
        /\ Logged("log.complete") /\ Logged("sig.dataSaved")
        /\ ~Cancelled /\ ~Failed
        /\ Len(y_mat) = n
        /\ Len(f.rows) = n
        /\ Len(data2d) = n
        /\ Count("sig.progress") = n
        /\ (params.range_input % params.step_size = 0 =>
               n * params.step_size = params.range_input)
        /\ (params.range_input < params.step_size => n = 0 /\ y_mat = <<>>)

C11_Witness ==
    /\ pc = "done"
    /\ NeverStopped /\ MoveNeverFailed /\ NoException
    /\ params.range_input = 2 /\ params.step_size = 1
    /\ Len(y_mat) = 2
    /\ Logged("log.complete")

\* ------------------------------------------------------------------- C12
\* the arguments of the events of one kind, in the order they happened
EvArgs(tag) ==
    LET sel == SelectSeq(trace, LAMBDA e : e[1] = tag)
    IN  [k \in 1..Len(sel) |-> sel[k][2]]

\* C12: in every reachable state the recorded frames are the frames of the
\* steps 0..n-1, in that order and without a gap, with n <= loop_num; the
\* frame of step k carries the delay k*dt, so the delays strictly increase;
\* and every frame is as long as the wavelength axis.
C12_DenseDataset ==
    LET n == Len(y_mat) IN
    /\ n <= loop_num
    /\ EvArgs("sig.dataUpdated") = [k \in 1..n |-> k - 1]
    /\ EvArgs("f.row") = [k \in 1..n |-> k - 1]
    /\ Len(f.rows) = n
    /\ pc \notin {"start", "raised"} =>
          /\ Len(data2d) = loop_num
          /\ \A k \in 1..n : data2d[k] = y_mat[k] /\ Len(y_mat[k]) = n_wl
          /\ \A k \in (n + 1)..loop_num : data2d[k] = [w \in 1..n_wl |-> 0]
          /\ \A k \in 1..n : f.rows[k].vals = y_mat[k]
          /\ \A k \in 1..n : f.rows[k].delay = Fmt2((k - 1) * params.dt)
          /\ \A k \in 1..n : t_axis[k] = (k - 1) * params.dt
          /\ \A k \in 2..n : t_axis[k - 1] < t_axis[k]
                             /\ f.rows[k - 1].delay < f.rows[k].delay

C12_Witness ==
    /\ Len(y_mat) = 2
    /\ loop_num = 2
    /\ f.rows[1].delay < f.rows[2].delay
    /\ EvArgs("sig.dataUpdated") = <<0, 1>>

\* ------------------------------------------------------------------- C13
\* C13: the progress values never decrease; there is exactly one progress
\* event per recorded frame, the event of step k carrying the integer
\* percentage of (k+1)/loop_num; and 100 has been emitted exactly when the
\* frame of step loop_num-1 has been recorded.
C13_ProgressEvents ==
    LET p == EvArgs("sig.progress")
        n == Len(y_mat)
    IN  /\ Len(p) = n
        /\ \A k \in 1..n : p[k] = (k * 100) \div loop_num
        /\ \A k \in 2..n : p[k - 1] <= p[k]
        /\ (\E k \in 1..n : p[k] = 100) <=> (loop_num > 0 /\ n = loop_num)
        /\ (\E k \in 1..n : p[k] = 100) <=> HasEv("f.row", loop_num - 1)

\* each frame is recorded in the step that emits its progress event
C13_ProgressStep ==
    (Len(y_mat') # Len(y_mat)) <=>
        (Count("sig.progress")' = Count("sig.progress") + 1)

StoppedStepOver ==
    /\ stopAt.pc = "step"
    /\ pc \in {"loop", "csv", "finalpos", "finish", "done"}

\* C16: a stop() arriving while a step is under way (its move, position
\* read or capture) does not cut that step short: unless the move fails or
\* an exception is raised, the step still captures, appends its frame,
\* writes its row and emits its progress event; and after the first stop()
\* at most one more frame is appended (none when stop() arrived between two
\* steps, before the loop or after it).
C16_StepRunsToItsEnd ==
    /\ stopAt # Never =>
          /\ Len(y_mat) <= stopAt.n + 1
          /\ stopAt.pc \in {"before", "boundary", "after"} =>
                Len(y_mat) = stopAt.n
    /\ (StoppedStepOver /\ MoveNeverFailed /\ NoException) =>
          /\ Len(y_mat) = stopAt.n + 1
          /\ Len(f.rows) = stopAt.n + 1
          /\ HasEv("spec.intensities", stopAt.n)
          /\ HasEv("f.row", stopAt.n)
          /\ HasEv("sig.progress", ((stopAt.n + 1) * 100) \div loop_num)
          /\ HasEv("sig.dataUpdated", stopAt.n)

\* the interruption is only ever noticed at the top of the loop
C16_NoticedAtLoopTop ==
    NewlyLogged("log.interrupted") =>
        pc = "loop" /\ ~is_running /\ pc' = "csv" /\ y_mat' = y_mat

C16_CancelWaitsForStep ==
    [] C16_StepRunsToItsEnd /\ [][C16_NoticedAtLoopTop]_vars

C16_Witness ==
    /\ pc = "done"
    /\ stopAt = [pc |-> "step", n |-> 1]
    /\ HasEv("log.moveStopped", 1)
    /\ Len(y_mat) = 2
    /\ HasEv("sig.progress", 100)

\* ------------------------------------------------------------------- C17
\* the column-major file has been closed by a run that got as far as opening it
CsvFileClosed == fcsv.st = "closed" /\ pc \in {"finish", "done"}

\* C17: the header of the column-major file holds one label per delay
\* observed: for every run that closed the file, also one cancelled or
\* failed after n < loop_num frames, the header has n delay labels and
\* every wavelength row has n intensity values.
C17_HeaderMatchesFrames ==
    CsvFileClosed =>
        /\ Len(fcsv.header) = Len(y_mat)
        /\ \A w \in 1..Len(fcsv.rows) :
              Len(fcsv.rows[w].vals) = Len(fcsv.header)

\* ------------------------------------------------------------------- C18
\* position in the trace of the event <<tag, n>> (0 when absent)
PosOf(tag, n) ==
    IF HasEv(tag, n)
    THEN CHOOSE k \in 1..Len(trace) : trace[k] = <<tag, n>>
    ELSE 0

\* C18: the row-major file gains exactly one row per completed step: at
\* every step boundary and at termination it holds as many rows as frames
\* are recorded, the row of step k holding the delay k*dt to two decimals,
\* the step's intensities and their maximum to two decimals; the row is
\* written after the step's capture and before the step's progress and
\* data-updated events.
C18_RowPerStep ==
    /\ Len(f.rows) = Len(y_mat)
    /\ Count("f.row") = Len(y_mat)
    /\ \A k \in 1..Len(f.rows) :
          /\ f.rows[k].delay = RoundHalfEven((k - 1) * params.dt, 100)
          /\ f.rows[k].vals = y_mat[k]
          /\ \E j \in 1..Len(y_mat[k]) :
                /\ IsMaxOf(y_mat[k][j], y_mat[k])
                /\ f.rows[k].max = RoundHalfEven(y_mat[k][j], 1000)
          /\ LET r == PosOf("f.row", k - 1) IN
             /\ r > 0
             /\ PosOf("spec.intensities", k - 1) \in 1..(r - 1)
             /\ trace[r + 1][1] = "sig.progress"
             /\ trace[r + 2] = <<"sig.dataUpdated", k - 1>>

\* a row is written in the very step that records the frame
C18_RowStep ==
    (Len(f.rows') # Len(f.rows)) =>
        /\ pc = "capture" /\ pc' = "loop"
        /\ Len(f.rows') = Len(f.rows) + 1
        /\ Len(y_mat') = Len(y_mat) + 1

C18_RowMajorFile ==
    [] C18_RowPerStep /\ [][C18_RowStep]_vars

C18_Witness ==
    /\ pc = "loop" /\ i = 1 /\ loop_num = 2
    /\ f.st = "open"
    /\ Len(f.rows) = 1
    /\ f.rows[1].vals = y_mat[1]

\* ------------------------------------------------------------------- C19
\* the matrix has been written to the column-major file
CsvMatrixWritten == Logged("fcsv.rows") /\ Len(y_mat) > 0

\* C19: for every run that wrote the matrix to the column-major file, the
\* transposed data of the row-major file is that matrix: both hold the
\* same steps and the same wavelengths, the value of wavelength w at step
\* k in the column-major file is the four-decimal rounding of the value in
\* row k, column w of the row-major file, and the wavelength heading row
\* w is the one-decimal rounding of the w-th wavelength of the row-major
\* header.  Intensities are in 1e-5 in the row-major file and in 1e-4 in
\* the column-major one, wavelengths in 0.01 nm and 0.1 nm.
C19_RoundTrip ==
    CsvMatrixWritten =>
        /\ Len(fcsv.rows) = Len(f.header)
        /\ \A w \in 1..Len(fcsv.rows) :
              /\ Len(fcsv.rows[w].vals) = Len(f.rows)
              /\ Abs(10 * fcsv.rows[w].wl - f.header[w]) <= 5
              /\ \A k \in 1..Len(f.rows) :
                    /\ Len(f.rows[k].vals) = Len(fcsv.rows)
                    /\ Abs(10 * fcsv.rows[w].vals[k] - f.rows[k].vals[w]) <= 5

C19_Witness ==
    /\ pc = "done"
    /\ CsvMatrixWritten
    /\ Len(f.rows) = 2
    /\ f.rows[1].vals # f.rows[2].vals
    /\ \E w \in 1..Len(fcsv.rows) :
          10 * fcsv.rows[w].vals[2] # f.rows[2].vals[w]

\* ------------------------------------------------------------------- C20
\* the run was aborted by an exception of the spectrometer at step s
CaptureFaultAt(s) ==
    /\ Logged("log.error")
    /\ HasEv("log.measStart", s)
    /\ ~HasEv("log.measDone", s)
    /\ pc \in {"finish", "done"}

\* C20: a run aborted by a fault of the spectrometer (setting the
\* integration time or reading the intensities) at step s >= 1 still
\* writes the column-major file, with the s frames recorded before the
\* fault: one row per wavelength, s values in each, matching the s rows of
\* the row-major file.
C20_FlushedAfterCaptureFault ==
    \A s \in 1..MaxRange :
        CaptureFaultAt(s) =>
            /\ Len(f.rows) = s
            /\ fcsv.st = "closed"
            /\ Len(fcsv.rows) = n_wl
            /\ \A w \in 1..Len(fcsv.rows) : Len(fcsv.rows[w].vals) = s

\* ------------------------------------------------------------------- C14
\* a worker is between the write of a command and the read of its reply
\* (dev = "ser"), or between integration_time_micros and the return of
\* intensities (dev = "spec")
WorkerOn(dev) ==
    \E w \in 1..MaxWorkers :
        workers[w].st \in (IF dev = "ser" THEN {"ser", "finalser"}
                                         ELSE {"spec"})

\* a handler of the GUI thread is at the same point on that device
GuiOn(dev) == gui.at = dev

\* C14: while a run is in progress no handler of the window (manual move,
\* set position, set home, position refresh, background or test
\* measurement) has a command outstanding on the serial port or the
\* spectrometer while the worker is within an exchange or a capture on
\* that device.
C14_NoOverlappingCommands ==
    \A dev \in {"ser", "spec"} : ~(WorkerOn(dev) /\ GuiOn(dev))

\* ------------------------------------------------------------------- C15
\* worker w has emitted its finished signal
HasEmitted(w) == workers[w].st = "emitted"

\* C15: at most one worker at a time: whatever the sequence of clicks on
\* the start and stop buttons, a worker is created and started only when
\* every worker created before it has emitted its finished signal.
C15_EarlierWorkersFinished ==
    \A w1, w2 \in 1..MaxWorkers :
        (w1 < w2 /\ workers[w2].st # "absent") => HasEmitted(w1)

\* a worker is created only by start_measurement, with the start button
\* enabled, and the button stays disabled from then until the slot of the
\* finished signal has run
C15_StartStep ==
    /\ (Created' # Created) =>
          /\ measure_btn /\ ~measure_btn'
          /\ \A w \in Created : HasEmitted(w)
          /\ Cardinality(Created') = Cardinality(Created) + 1
    /\ (~measure_btn /\ measure_btn') => pending # <<>> /\ HasEmitted(Head(pending))

C15_OneWorkerAtATime ==
    [] C15_EarlierWorkersFinished /\ [][C15_StartStep]_vars

C15_Witness ==
    /\ HasEmitted(1)
    /\ ~workers[1].is_running
    /\ workers[2].st = "ser"
    /\ measure_thread = 2

\* ------------------------------------------------------------------- C22
\* stop() was first called while step stopAt.n was under way, or between
\* steps, and nothing else ended the loop
StoppedDuringLoop ==
    /\ stopAt.pc \in {"step", "boundary"}
    /\ MoveNeverFailed /\ NoException

\* the iteration whose check of _is_running is the first to follow stop()
NextCheck == IF stopAt.pc = "step" THEN stopAt.n + 1 ELSE stopAt.n

StoppedBeforeLoop == stopAt.pc = "before"

MoveWrittenBefore(p) ==
    \E q \in 1..(p - 1) : trace[q][1] = "ser.move"

\* C24: within every step k the operations happen in the order move (only
\* when k > 0) -> position read -> integration_time_micros -> intensities
\* -> background subtraction, if any -> row write and frame append ->
\* progress and data-updated events.  No move is commanded before the
\* capture of step 0, the measurement of a step k > 0 starts only after
\* the move of step k was polled idle, and integration_time_micros is
\* called right before each capture.
C24_StepOrder ==
    \A k \in 0..(loop_num - 1) :
        /\ HasEv("log.measStart", k) =>
              LET m == PosOf("log.measStart", k) IN
              /\ trace[m - 1][1] = "sig.pos"
              /\ IF k = 0
                 THEN ~HasEv("log.moveStart", 0) /\ ~MoveWrittenBefore(m)
                 ELSE /\ HasEv("log.moveStart", k)
                      /\ HasEv("log.moveStopped", k)
                      /\ ~HasEv("log.moveFailed", k)
                      /\ PosOf("log.moveStart", k) < PosOf("log.moveStopped", k)
                      /\ PosOf("log.moveStopped", k) < m
                      /\ trace[PosOf("log.moveStart", k) + 2][1] = "ser.move"
                      /\ HasEv("sig.dataUpdated", k - 1)
                      /\ PosOf("sig.dataUpdated", k - 1)
                            < PosOf("log.moveStart", k)
        /\ HasEv("spec.intensities", k) =>
              LET c == PosOf("spec.intensities", k) IN
              /\ trace[c - 1][1] = "spec.setint"
              /\ trace[c - 2] = <<"log.measStart", k>>
        /\ HasEv("log.bgSub", k) =>
              PosOf("log.bgSub", k) = PosOf("spec.intensities", k) + 1
        /\ HasEv("f.row", k) =>
              LET r == PosOf("f.row", k) IN
              /\ HasEv("spec.intensities", k)
              /\ PosOf("spec.intensities", k) < r
              /\ HasEv("log.bgSub", k) => PosOf("log.bgSub", k) < r
              /\ trace[r + 1][1] = "sig.progress"
              /\ trace[r + 2] = <<"sig.dataUpdated", k>>

C24_Witness ==
    /\ HasEv("sig.dataUpdated", 1)
    /\ HasEv("log.bgSub", 1)
    /\ HasEv("log.moveStopped", 1)
    /\ PosOf("log.moveStopped", 1) < PosOf("spec.intensities", 1)
    /\ PosOf("spec.intensities", 0) < PosOf("log.moveStart", 1)

\* ------------------------------------------------------------------- C29
\* how many events of one kind precede position p of the trace
CountBefore(tag, p) ==
    Cardinality({q \in 1..(p - 1) : trace[q][1] = tag})

\* C29 as stated: a run that records n >= 1 frames without a move failure
\* has issued exactly n-1 moves, and a run whose move of step s fails has
\* issued exactly s move commands.
C29_Original ==
    /\ (pc = "done" /\ Len(y_mat) >= 1 /\ MoveNeverFailed) =>
          Count("ser.move") = Len(y_mat) - 1
    /\ \A s \in 1..MaxRange :
          HasEv("log.moveFailed", s) => Count("ser.move") = s

\* C29, amended: a run that records n >= 1 frames and ends with neither a
\* failed move nor an exception has written exactly n-1 move commands of
\* step_size pulses each, none before the first capture and none after the
\* last, a displacement of (n-1)*step_size pulses; the frame of step k is
\* captured after exactly k moves polled idle.  A run whose move of step s
\* fails has written s move commands when the failure came after the move
\* command was written (a timeout, or a fault while polling) and s-1 when
\* the fault came while the speed or the move command was being written.
C29_MovesPerFrame ==
    LET n == Len(y_mat) IN
    /\ (pc = "done" /\ n >= 1 /\ MoveNeverFailed /\ NoException) =>
          /\ Count("ser.move") = n - 1
          /\ Count("ser.move") * params.step_size = (n - 1) * params.step_size
          /\ \A q \in 1..Len(trace) :
                trace[q][1] = "ser.move" =>
                   /\ trace[q][2] = params.step_size
                   /\ PosOf("spec.intensities", 0) < q
                   /\ q < PosOf("spec.intensities", n - 1)
    /\ \A k \in 0..(loop_num - 1) :
          HasEv("spec.intensities", k) =>
             /\ CountBefore("log.moveStopped", PosOf("spec.intensities", k)) = k
             /\ CountBefore("ser.move", PosOf("spec.intensities", k)) = k
    /\ \A s \in 1..MaxRange :
          HasEv("log.moveFailed", s) =>
             /\ Count("log.moveStopped") = s - 1
             /\ Count("ser.move") \in {s - 1, s}
             /\ HasEv("log.moveTimeout", s) =>
                   Count("ser.move") = s
             /\ Len(y_mat) = s

C29_Witness ==
    /\ pc = "done"
    /\ Len(y_mat) = 2
    /\ MoveNeverFailed /\ NoException
    /\ Count("ser.move") = 1
    /\ trace[PosOf("log.moveStart", 1) + 2] = <<"ser.move", params.step_size>>

\* ------------------------------------------------------------------- C25
\* C25: the value handed to the microsecond setter of the spectrometer is
\* the requested integration time in microseconds, 1000 times the
\* millisecond value the worker then sleeps for.
C25_MicrosecondsHanded ==
    \A k \in 1..Len(trace) :
        trace[k][1] = "spec.setint" =>
            trace[k][2] = params.integration_time_ms * 1000

\* ------------------------------------------------------------------- C26
\* position_input.setRange(-1000000, 1000000): setValue keeps the value in
\* the range
SpinBoxValue(v) ==
    IF v < 0 - 1000000 THEN 0 - 1000000
    ELSE IF v > 1000000 THEN 1000000 ELSE v

\* what the window holds before any position has been reported
ObserverInit == [current_position |-> None, position_input |-> 0]

\* update_position_label(pos) as the slot of posUpdated: pos is an int, so
\* it is stored and shown without a query of the stage controller
update_position_label(obs, pos) ==
    [current_position |-> Some(pos), position_input |-> SpinBoxValue(pos)]

\* the window after the first k posUpdated signals have been delivered
RECURSIVE ObserverAfter(_)
ObserverAfter(k) ==
    IF k = 0 THEN ObserverInit
    ELSE update_position_label(ObserverAfter(k - 1), EvArgs("sig.pos")[k])

\* C26: a failed position read never makes the window store the sentinel
\* as its current position or put it into its position input: whatever
\* number of posUpdated signals has been delivered, neither holds -999999.
C26_SentinelNotStored ==
    \A k \in 0..Len(EvArgs("sig.pos")) :
        LET obs == ObserverAfter(k) IN
        /\ obs.current_position # Some(UnknownPos)
        /\ obs.position_input # UnknownPos

\* ------------------------------------------------------------------- C21
\* dataUpdated.emit(i, data2d, t_axis, wavelengths) hands over the array
\* object itself: whoever reads it later reads what it holds by then
ArrayOfEvent(k) == data2d

\* arr = np.array(arr) of update_imshow, run whenever the GUI thread gets
\* to serve the queued signal: a copy of the whole array as it is then
update_imshow(arr) == [j \in 1..Len(arr) |-> arr[j]]

\* the matrix as it was when the frame of step k had just been recorded
MatrixAfterStep(k) ==
    [j \in 1..loop_num |->
        IF j <= k + 1 THEN y_mat[j] ELSE [w \in 1..n_wl |-> 0]]

\* C21: the data-updated event of step k carries a snapshot: whenever the
\* observer gets to read it, it finds the frames of steps 0..k and nothing
\* of later steps.
C21_SnapshotDelivered ==
    \A k \in 0..(loop_num - 1) :
        HasEv("sig.dataUpdated", k) =>
            update_imshow(ArrayOfEvent(k)) = MatrixAfterStep(k)

\* ------------------------------------------------------------------- C27
\* the lines the worker has written to a file object: header and rows
LinesWritten(file) == 1 + Len(file.rows)

\* What the file can hold on disk if the process is killed now.  The file
\* is opened with the default buffering and is never flushed before the
\* with block closes it, and f.write does not write a line atomically: the
\* disk holds some prefix of the characters written, ending after a whole
\* number of lines or in the middle of one.
OnDisk(file) ==
    IF file.st = "closed"
    THEN {[lines |-> LinesWritten(file), partial |-> FALSE]}
    ELSE {d \in [lines : 0..LinesWritten(file), partial : BOOLEAN] :
             d.partial => d.lines < LinesWritten(file)}

\* C27: killed at any point after the row of step k has been appended, the
\* row-major file on disk holds the header and the complete rows of the
\* steps 0..k, with no partial row and no completed row missing.
C27_CrashTolerant ==
    (f.st = "open" /\ Len(f.rows) >= 1) =>
        \A d \in OnDisk(f) :
            ~d.partial /\ d.lines = LinesWritten(f)

\* ------------------------------------------------------------------- C30
\* the run of the current worker is over and the window has served every
\* signal it was sent: nothing is left that could change the buttons
RunOverAndServed ==
    /\ measure_thread # 0
    /\ workers[measure_thread].st \in {"emitted", "dead"}
    /\ pending = <<>>
    /\ gui = GuiIdle

\* C30: however a run ends, the window returns to the state in which a new
\* measurement can be started: once the run is over and the window has
\* served its signals, the start button is enabled and the stop button
\* disabled.  (The start button is enabled only by measurement_finished,
\* so a state that violates this is never left.)
C30_StartReenabled ==
    RunOverAndServed => measure_btn /\ ~stop_btn

\* ------------------------------------------------------------------- C28
\* the program is in one of its two waits for the stage
CliWaiting == cli.pc \in {"move_poll", "home_poll"}

\* C28: every wait for the stage in the command-line program is bounded:
\* a wait whose polls are never answered idle ends after a bounded number
\* of polls, so no wait is still going on after CliPollCap unanswered
\* polls.  (The counter stops at CliPollCap; a wait in that state can poll
\* again and stay in it, so the statement fails for every value of the
\* cap.)
C28_BoundedWait ==
    ~(CliWaiting /\ cli.polls >= CliPollCap)

====
